---- MODULE Spec2Model ----
(***************************************************************************)
(* Model of the seizure monitor backend (src/main.py): the telemetry       *)
(* ingestion handler receive_device_data and the multi-device correlation  *)
(* it performs over the devices, device_data and seizure_events tables.    *)
(*                                                                         *)
(* Every "await database..." of the handler is one atomic database         *)
(* operation; the event loop may run any other handler between two of      *)
(* them.  One action below is one database operation together with the     *)
(* synchronous code that follows it up to the next await.  Time is counted *)
(* in whole seconds.                                                       *)
(*                                                                         *)
(* The specifications.  Spec: ingestion handlers overlap, interleaved at    *)
(* their awaits, all within one reading of the clock, the devices stamping *)
(* their readings with the current second.  SpecSequential: one ingestion  *)
(* at a time, the clock advancing, the devices free in the timestamp they  *)
(* send.  SpecFaulty: Spec with database operations that may raise.        *)
(* SpecTraffic: the devices of one user report in turn over several        *)
(* seconds.  SpecDirectory: register_device and delete_device handlers     *)
(* overlap.  SpecService: every handler that touches the tables, one call  *)
(* at a time.  SpecOwnership: two users with three devices each report,    *)
(* and a device is deleted and registered again.                           *)
(*                                                                         *)
(* get_current_user is taken as passed: the user of a call is one of the   *)
(* rows of users.                                                          *)
(***************************************************************************)
EXTENDS Integers, Sequences, FiniteSets, Bags, TLC

\* ---------------------------------------------------------------- bounds
MaxTasks == 3           \* handler tasks in flight at the same time
MaxRequests == 3        \* requests received in a run with concurrent handlers
MaxSeqRequests == 4     \* requests received in a run of one handler at a time
MaxSeqTime == 6         \* last clock value of a run of one handler at a time
MaxTrafficRequests == 6 \* requests received in a run of continuous traffic
MaxTrafficTime == 6     \* last clock value of a run of continuous traffic
MaxDirectoryRequests == 4 \* requests received in a run of device registrations
MaxServiceRequests == 4 \* requests received in a run of all the handlers
MaxOwnershipRequests == 6 \* requests received in a run of two users' devices

\* ------------------------------------------------------ program constants
WindowSeconds == 5      \* timedelta(seconds=5)
Quorum == 3             \* len(unique_triggered) >= 3
DeviceLimit == 4        \* len(user_devices) >= 4

\* ------------------------------------------------------------- universes
DeviceIds == {"d1", "d2", "d3", "d4", "d5", "d6"}
Tasks == 1 .. MaxTasks
\* timestamp_ms values a client sends: second 0 and second 1 of the run
TimestampMs == {0, 1000}
\* the payloads a client sends: an abnormal reading from any device, and a
\* normal reading from d1
Payloads ==
    [device_id : DeviceIds, timestamp_ms : TimestampMs, seizure_flag : {TRUE}]
        \cup [device_id : {"d1"}, timestamp_ms : TimestampMs, seizure_flag : {FALSE}]

NoUser == 0
NoRow == 0
NoPayload == [device_id |-> "", timestamp_ms |-> 0, seizure_flag |-> FALSE]

VARIABLES
    now,             \* datetime.utcnow(), in seconds
    received,        \* number of requests received so far
    users,           \* table users: set of rows [id, username]
    devices,         \* table devices: set of rows [id, user_id, device_id, label]
    device_data,     \* table device_data: bag of rows [device_id, timestamp, seizure_flag]
    seizure_events,  \* table seizure_events: rows in insertion (id) order
    reported_under,  \* history: each stored device_data row with the user the
                     \* device was registered to when the row was stored
    pc,              \* per task: the await it is suspended at
    payload,         \* per task: the DevicePayload received; of a device handler,
                     \* the device_id of the request
    username,        \* per task: u.username of a register call
    user_id,         \* per task: device_row["user_id"], or current_user["id"]
    device,          \* per task: device["id"] of the row a device handler fetched
    device_ids,      \* per task: device ids of user_devices
    window_start,    \* per task: utcnow() - 5 s
    unique_triggered,\* per task: list(set(triggered_devices)), as a bag of ids
    event_timestamp, \* per task: utcnow() evaluated for the insert
    outcome          \* how the call that returned last ended

vars == <<now, received, users, devices, device_data, seizure_events,
          reported_under, pc, payload,
          username, user_id, device, device_ids, window_start, unique_triggered,
          event_timestamp, outcome>>

\* the payloads whose timestamp is the current second
CurrentPayloads == {p \in Payloads : p.timestamp_ms = now * 1000}

\* ------------------------------------------------------------ pure helpers
\* datetime.utcfromtimestamp(timestamp_ms / 1000.0), in seconds
utcfromtimestamp(ms) == ms \div 1000

\* devices.select().where(devices.c.device_id == id)
DeviceRow(id) == {d \in devices : d.device_id = id}

\* variant: the devices of every user are taken
UserDeviceIdsOfAnyUser(u) == {d.device_id : d \in devices}

\* [d["device_id"] for d in user_devices] of the rows with user_id = u
UserDeviceIds(u) == {d.device_id : d \in {x \in devices : x.user_id = u}}

\* variant: the window's lower bound taken exclusive
RecentRowsStrict(ids, start) ==
    {row \in BagToSet(device_data) : row.device_id \in ids /\ row.timestamp > start}

\* device_data rows with device_id in ids and timestamp >= start
RecentRows(ids, start) ==
    {row \in BagToSet(device_data) : row.device_id \in ids /\ row.timestamp >= start}

\* variant: every row of recent_rows counts, whatever its seizure_flag
TriggeredRowsAnyFlag(ids, start) == RecentRows(ids, start)

\* the rows of recent_rows whose payload has seizure_flag set
TriggeredRows(ids, start) == {row \in RecentRows(ids, start) : row.seizure_flag}

\* triggered_devices: the device id of every such row, one entry per row;
\* a bag, since the order of the list is never read
TriggeredDevices(ids, start) ==
    LET rows == TriggeredRows(ids, start)
        of(d) == {row \in rows : row.device_id = d}
        copies(S) == BagCardinality([row \in S |-> device_data[row]])
    IN  [d \in {row.device_id : row \in rows} |-> copies(of(d))]

\* list(set(triggered_devices)): each device id once
UniqueTriggered(ids, start) == SetToBag(BagToSet(TriggeredDevices(ids, start)))

\* variant: more than three devices asked for
QuorumMetStrict(triggered) == BagCardinality(triggered) > Quorum

\* len(unique_triggered) >= 3
QuorumMet(triggered) == BagCardinality(triggered) >= Quorum

\* variant: any earlier event of the user is found, however old
ExistingRecentAnyAge(u, start) ==
    {i \in DOMAIN seizure_events : seizure_events[i].user_id = u}

\* variant: an event stamped exactly at window_start is not found
ExistingRecentStrict(u, start) ==
    {i \in DOMAIN seizure_events :
        /\ seizure_events[i].user_id = u
        /\ seizure_events[i].timestamp > start}

\* seizure_events rows with user_id = u and timestamp >= start
ExistingRecent(u, start) ==
    {i \in DOMAIN seizure_events :
        /\ seizure_events[i].user_id = u
        /\ seizure_events[i].timestamp >= start}

\* the row device_data.insert() stores for a payload
DataRow(p) ==
    [device_id |-> p.device_id,
     timestamp |-> utcfromtimestamp(p.timestamp_ms),
     seizure_flag |-> p.seizure_flag]

\* the row seizure_events.insert() stores; device_ids is ",".join(triggered), kept
\* as the bag of the ids joined (the order of the ids in the string is left out)
EventRow(u, ts, triggered) ==
    [user_id |-> u, timestamp |-> ts, device_ids |-> triggered]

\* ------------------------------------------------------------------- Init
\* the database at startup: user 1 has registered d1..d4, user 2 has registered
\* d5, d6 is not registered; no telemetry, no events
Init ==
    /\ now = 0
    /\ received = 0
    /\ users = {[id |-> 1, username |-> "alice"], [id |-> 2, username |-> "bob"]}
    /\ devices = {[id |-> 1, user_id |-> 1, device_id |-> "d1", label |-> "d1"],
                  [id |-> 2, user_id |-> 1, device_id |-> "d2", label |-> "d2"],
                  [id |-> 3, user_id |-> 1, device_id |-> "d3", label |-> "d3"],
                  [id |-> 4, user_id |-> 1, device_id |-> "d4", label |-> "d4"],
                  [id |-> 5, user_id |-> 2, device_id |-> "d5", label |-> "d5"]}
    /\ device_data = EmptyBag
    /\ seizure_events = <<>>
    /\ reported_under = {}
    /\ pc = [r \in Tasks |-> "idle"]
    /\ payload = [r \in Tasks |-> NoPayload]
    /\ username = [r \in Tasks |-> ""]
    /\ user_id = [r \in Tasks |-> NoUser]
    /\ device = [r \in Tasks |-> NoRow]
    /\ device_ids = [r \in Tasks |-> {}]
    /\ window_start = [r \in Tasks |-> 0]
    /\ unique_triggered = [r \in Tasks |-> EmptyBag]
    /\ event_timestamp = [r \in Tasks |-> 0]
    /\ outcome = "none"

\* ---------------------------------------------------------------- actions
\* the handler of task r returns: its locals are gone, its outcome is kept
Return(r, result) ==
    /\ pc' = [pc EXCEPT ![r] = "idle"]
    /\ outcome' = result
    /\ payload' = [payload EXCEPT ![r] = NoPayload]
    /\ username' = [username EXCEPT ![r] = ""]
    /\ user_id' = [user_id EXCEPT ![r] = NoUser]
    /\ device' = [device EXCEPT ![r] = NoRow]
    /\ device_ids' = [device_ids EXCEPT ![r] = {}]
    /\ window_start' = [window_start EXCEPT ![r] = 0]
    /\ unique_triggered' = [unique_triggered EXCEPT ![r] = EmptyBag]
    /\ event_timestamp' = [event_timestamp EXCEPT ![r] = 0]

\* the clock advances
Tick ==
    /\ now' = now + 1
    /\ UNCHANGED <<received, users, devices, device_data, reported_under, seizure_events, pc, payload,
                   user_id, username, device, device_ids, window_start, unique_triggered,
                   event_timestamp, outcome>>

\* variant: the telemetry is stored without looking at device_row
ReceiveDeviceDataUnchecked(r, p) ==
    /\ pc[r] = "idle"
    /\ \A q \in Tasks : q < r => pc[q] # "idle"
    /\ received' = received + 1
    /\ pc' = [pc EXCEPT ![r] = "insert_data"]
    /\ payload' = [payload EXCEPT ![r] = p]
    /\ user_id' = [user_id EXCEPT ![r] =
          IF DeviceRow(p.device_id) = {} THEN NoUser
          ELSE (CHOOSE d \in DeviceRow(p.device_id) : TRUE).user_id]
    /\ UNCHANGED <<now, users, devices, device_data, reported_under, seizure_events, username, device, device_ids,
                   window_start, unique_triggered, event_timestamp, outcome>>

\* POST /api/devices/data arrives at a free task; device_row is fetched
ReceiveDeviceData(r, p) ==
    /\ pc[r] = "idle"
    /\ \A q \in Tasks : q < r => pc[q] # "idle"
    /\ received' = received + 1
    /\ IF DeviceRow(p.device_id) = {}
         THEN Return(r, "UnknownDevice")
         ELSE /\ pc' = [pc EXCEPT ![r] = "insert_data"]
              /\ payload' = [payload EXCEPT ![r] = p]
              /\ user_id' = [user_id EXCEPT ![r] =
                    (CHOOSE d \in DeviceRow(p.device_id) : TRUE).user_id]
              /\ UNCHANGED <<username, device, device_ids, window_start, unique_triggered,
                             event_timestamp, outcome>>
    /\ UNCHANGED <<now, users, devices, device_data, reported_under, seizure_events>>

\* device_data.insert(); a call without seizure_flag returns after it
InsertDeviceData(r) ==
    /\ pc[r] = "insert_data"
    /\ device_data' = device_data (+) SetToBag({DataRow(payload[r])})
    /\ reported_under' = reported_under \cup
            {[row |-> DataRow(payload[r]), user_id |-> user_id[r]]}
    /\ IF payload[r].seizure_flag
         THEN /\ pc' = [pc EXCEPT ![r] = "fetch_user_devices"]
              /\ UNCHANGED <<payload, user_id, username, device, device_ids, window_start,
                             unique_triggered, event_timestamp, outcome>>
         ELSE Return(r, "Stored")
    /\ UNCHANGED <<now, received, users, devices, seizure_events>>

\* user_devices is fetched, then window_start is taken from the clock
FetchUserDevices(r) ==
    /\ pc[r] = "fetch_user_devices"
    /\ device_ids' = [device_ids EXCEPT ![r] = UserDeviceIds(user_id[r])]
    /\ window_start' = [window_start EXCEPT ![r] = now - WindowSeconds]
    /\ pc' = [pc EXCEPT ![r] = "fetch_recent_rows"]
    /\ UNCHANGED <<now, received, users, devices, device_data, reported_under, seizure_events, payload,
                   user_id, username, device, unique_triggered, event_timestamp, outcome>>

\* recent_rows is fetched and the quorum is tested
FetchRecentRows(r) ==
    /\ pc[r] = "fetch_recent_rows"
    /\ LET u == UniqueTriggered(device_ids[r], window_start[r]) IN
         IF QuorumMet(u)
           THEN /\ pc' = [pc EXCEPT ![r] = "fetch_existing_recent"]
                /\ unique_triggered' = [unique_triggered EXCEPT ![r] = u]
                /\ UNCHANGED <<payload, user_id, username, device, device_ids, window_start,
                               event_timestamp, outcome>>
           ELSE Return(r, "NoCorrelation")
    /\ UNCHANGED <<now, received, users, devices, device_data, reported_under, seizure_events>>

\* variant: the event is written before existing_recent is looked at
FetchExistingRecentWriteFirst(r) ==
    /\ pc[r] = "fetch_existing_recent"
    /\ seizure_events' = Append(seizure_events,
            EventRow(user_id[r], now, unique_triggered[r]))
    /\ IF ExistingRecent(user_id[r], window_start[r]) # {}
         THEN Return(r, "SuppressedDuplicate")
         ELSE Return(r, "Confirmed")
    /\ UNCHANGED <<now, received, users, devices, device_data, reported_under>>

\* existing_recent is fetched; without one the insert is built with utcnow()
FetchExistingRecent(r) ==
    /\ pc[r] = "fetch_existing_recent"
    /\ IF ExistingRecent(user_id[r], window_start[r]) # {}
         THEN Return(r, "SuppressedDuplicate")
         ELSE /\ pc' = [pc EXCEPT ![r] = "insert_event"]
              /\ event_timestamp' = [event_timestamp EXCEPT ![r] = now]
              /\ UNCHANGED <<payload, user_id, username, device, device_ids, window_start,
                             unique_triggered, outcome>>
    /\ UNCHANGED <<now, received, users, devices, device_data, reported_under, seizure_events>>

\* seizure_events.insert()
InsertSeizureEvent(r) ==
    /\ pc[r] = "insert_event"
    /\ seizure_events' = Append(seizure_events,
            EventRow(user_id[r], event_timestamp[r], unique_triggered[r]))
    /\ Return(r, "Confirmed")
    /\ UNCHANGED <<now, received, users, devices, device_data, reported_under>>

\* overlapping handlers within one reading of the clock
Next ==
    \/ \E r \in Tasks, p \in CurrentPayloads :
            received < MaxRequests /\ ReceiveDeviceData(r, p)
    \/ \E r \in Tasks : InsertDeviceData(r)
    \/ \E r \in Tasks : FetchUserDevices(r)
    \/ \E r \in Tasks : FetchRecentRows(r)
    \/ \E r \in Tasks : FetchExistingRecent(r)
    \/ \E r \in Tasks : InsertSeizureEvent(r)

Spec == Init /\ [][Next]_vars

\* one handler at a time, over several seconds: a call is received only after
\* the previous one returned
NextSequential ==
    \/ now < MaxSeqTime /\ Tick
    \/ \E p \in Payloads : received < MaxSeqRequests /\ ReceiveDeviceData(1, p)
    \/ InsertDeviceData(1)
    \/ FetchUserDevices(1)
    \/ FetchRecentRows(1)
    \/ FetchExistingRecent(1)
    \/ InsertSeizureEvent(1)

SpecSequential == Init /\ [][NextSequential]_vars

\* the abnormal reading user 1's devices d1, d2, d3 send next when they report
\* in turn and stamp their readings with the current second
TrafficPayloads ==
    [device_id : {<<"d1", "d2", "d3">>[(received % 3) + 1]},
     timestamp_ms : {now * 1000},
     seizure_flag : {TRUE}]

\* continuous abnormal traffic of one user over several seconds, one handler at
\* a time, each call handled within the second it arrives in
NextTraffic ==
    \/ now < MaxTrafficTime /\ pc[1] = "idle" /\ Tick
    \/ \E p \in TrafficPayloads :
            received < MaxTrafficRequests /\ ReceiveDeviceData(1, p)
    \/ InsertDeviceData(1)
    \/ FetchUserDevices(1)
    \/ FetchRecentRows(1)
    \/ FetchExistingRecent(1)
    \/ InsertSeizureEvent(1)

SpecTraffic == Init /\ [][NextTraffic]_vars

\* ------------------------------------------------------- device handlers
\* the id the database gives an inserted row: the table's id column is an
\* INTEGER PRIMARY KEY of SQLite, one more than the largest id in the table
NextRowId(rows) ==
    IF rows = {} THEN 1
    ELSE (CHOOSE x \in rows : \A y \in rows : y.id <= x.id).id + 1

\* devices.select().where((device_id == d) & (user_id == u))
OwnedDevice(u, d) == {x \in devices : x.device_id = d /\ x.user_id = u}

\* the request of a device handler for device d, kept in the task's payload slot
DeviceRequest(d) == [device_id |-> d, timestamp_ms |-> 0, seizure_flag |-> FALSE]

\* the locals of receive_device_data, which no other handler has
ingestionLocals == <<device_ids, window_start, unique_triggered, event_timestamp>>

\* POST /api/devices/register by user u for device d: user_devices is fetched
\* and counted
ReceiveRegisterDevice(r, u, d) ==
    /\ pc[r] = "idle"
    /\ \A q \in Tasks : q < r => pc[q] # "idle"
    /\ received' = received + 1
    /\ IF Cardinality({x \in devices : x.user_id = u}) >= DeviceLimit
         THEN Return(r, "DeviceLimitReached")
         ELSE /\ pc' = [pc EXCEPT ![r] = "fetch_existing_device"]
              /\ payload' = [payload EXCEPT ![r] = DeviceRequest(d)]
              /\ user_id' = [user_id EXCEPT ![r] = u]
              /\ UNCHANGED <<username, device, ingestionLocals, outcome>>
    /\ UNCHANGED <<now, users, devices, device_data, reported_under, seizure_events>>

\* existing is fetched by device_id
FetchExistingDevice(r) ==
    /\ pc[r] = "fetch_existing_device"
    /\ IF DeviceRow(payload[r].device_id) # {}
         THEN Return(r, "AlreadyRegistered")
         ELSE /\ pc' = [pc EXCEPT ![r] = "insert_device"]
              /\ UNCHANGED <<payload, username, user_id, device, ingestionLocals,
                             outcome>>
    /\ UNCHANGED <<now, received, users, devices, device_data, reported_under, seizure_events>>

\* variant: the device_id column is not declared unique
InsertDeviceNotUnique(r) ==
    /\ pc[r] = "insert_device"
    /\ devices' = devices \cup
            {[id |-> NextRowId(devices), user_id |-> user_id[r],
              device_id |-> payload[r].device_id, label |-> payload[r].device_id]}
    /\ Return(r, "Registered")
    /\ UNCHANGED <<now, received, users, device_data, reported_under, seizure_events>>

\* devices.insert(); the unique device_id column makes the insert of a
\* device_id that is in the table raise
InsertDevice(r) ==
    /\ pc[r] = "insert_device"
    /\ IF DeviceRow(payload[r].device_id) # {}
         THEN /\ devices' = devices
              /\ Return(r, "Error")
         ELSE /\ devices' = devices \cup
                    {[id |-> NextRowId(devices), user_id |-> user_id[r],
                      device_id |-> payload[r].device_id,
                      label |-> payload[r].device_id]}
              /\ Return(r, "Registered")
    /\ UNCHANGED <<now, received, users, device_data, reported_under, seizure_events>>

\* DELETE /api/devices/{d} by user u: the user's row of the device is fetched
ReceiveDeleteDevice(r, u, d) ==
    /\ pc[r] = "idle"
    /\ \A q \in Tasks : q < r => pc[q] # "idle"
    /\ received' = received + 1
    /\ IF OwnedDevice(u, d) = {}
         THEN Return(r, "DeviceNotFound")
         ELSE /\ pc' = [pc EXCEPT ![r] = "delete_device"]
              /\ payload' = [payload EXCEPT ![r] = DeviceRequest(d)]
              /\ user_id' = [user_id EXCEPT ![r] = u]
              /\ device' = [device EXCEPT ![r] = (CHOOSE x \in OwnedDevice(u, d) : TRUE).id]
              /\ UNCHANGED <<username, ingestionLocals, outcome>>
    /\ UNCHANGED <<now, users, devices, device_data, reported_under, seizure_events>>

\* variant: the telemetry of the device is deleted with it
DeleteDeviceCascade(r) ==
    /\ pc[r] = "delete_device"
    /\ devices' = {x \in devices : x.id # device[r]}
    /\ device_data' = [row \in {x \in BagToSet(device_data) :
                                   x.device_id # payload[r].device_id}
                          |-> device_data[row]]
    /\ Return(r, "Deleted")
    /\ UNCHANGED <<now, received, users, seizure_events, reported_under>>

\* devices.delete().where(id == device["id"])
DeleteDevice(r) ==
    /\ pc[r] = "delete_device"
    /\ devices' = {x \in devices : x.id # device[r]}
    /\ Return(r, "Deleted")
    /\ UNCHANGED <<now, received, users, device_data, reported_under, seizure_events>>

\* PUT /api/devices/{d} by user u: the user's row of the device is fetched
ReceiveUpdateDevice(r, u, d) ==
    /\ pc[r] = "idle"
    /\ \A q \in Tasks : q < r => pc[q] # "idle"
    /\ received' = received + 1
    /\ IF OwnedDevice(u, d) = {}
         THEN Return(r, "DeviceNotFound")
         ELSE /\ pc' = [pc EXCEPT ![r] = "update_device"]
              /\ payload' = [payload EXCEPT ![r] = DeviceRequest(d)]
              /\ user_id' = [user_id EXCEPT ![r] = u]
              /\ device' = [device EXCEPT ![r] = (CHOOSE x \in OwnedDevice(u, d) : TRUE).id]
              /\ UNCHANGED <<username, ingestionLocals, outcome>>
    /\ UNCHANGED <<now, users, devices, device_data, reported_under, seizure_events>>

\* the label the update sets
NewLabel == "wrist"

\* devices.update().where(id == device["id"]).values(label=body.label)
UpdateDevice(r) ==
    /\ pc[r] = "update_device"
    /\ devices' = {IF x.id = device[r] THEN [x EXCEPT !.label = NewLabel] ELSE x :
                      x \in devices}
    /\ Return(r, "Updated")
    /\ UNCHANGED <<now, received, users, device_data, reported_under, seizure_events>>

\* GET /api/devices/{d} by user u: the user's row of the device is fetched
ReceiveGetDeviceHistory(r, u, d) ==
    /\ pc[r] = "idle"
    /\ \A q \in Tasks : q < r => pc[q] # "idle"
    /\ received' = received + 1
    /\ IF OwnedDevice(u, d) = {}
         THEN Return(r, "NotYourDevice")
         ELSE /\ pc' = [pc EXCEPT ![r] = "fetch_history"]
              /\ payload' = [payload EXCEPT ![r] = DeviceRequest(d)]
              /\ user_id' = [user_id EXCEPT ![r] = u]
              /\ UNCHANGED <<username, device, ingestionLocals, outcome>>
    /\ UNCHANGED <<now, users, devices, device_data, reported_under, seizure_events>>

\* the device_data rows of the device are fetched and returned
FetchHistory(r) ==
    /\ pc[r] = "fetch_history"
    /\ Return(r, "History")
    /\ UNCHANGED <<now, received, users, devices, device_data, reported_under, seizure_events>>

\* GET /api/seizure_events by user u: the user's events are fetched and returned
GetSeizureEvents(r, u) ==
    /\ pc[r] = "idle"
    /\ \A q \in Tasks : q < r => pc[q] # "idle"
    /\ received' = received + 1
    /\ Return(r, "Events")
    /\ UNCHANGED <<now, users, devices, device_data, reported_under, seizure_events>>

\* POST /api/register for a username: existing is fetched
ReceiveRegister(r, name) ==
    /\ pc[r] = "idle"
    /\ \A q \in Tasks : q < r => pc[q] # "idle"
    /\ received' = received + 1
    /\ IF \E u \in users : u.username = name
         THEN Return(r, "UsernameExists")
         ELSE /\ pc' = [pc EXCEPT ![r] = "insert_user"]
              /\ username' = [username EXCEPT ![r] = name]
              /\ UNCHANGED <<payload, user_id, device, ingestionLocals, outcome>>
    /\ UNCHANGED <<now, users, devices, device_data, reported_under, seizure_events>>

\* users.insert(); the unique username column makes the insert of a username
\* that is in the table raise
InsertUser(r) ==
    /\ pc[r] = "insert_user"
    /\ IF \E u \in users : u.username = username[r]
         THEN /\ users' = users
              /\ Return(r, "Error")
         ELSE /\ users' = users \cup
                    {[id |-> NextRowId(users), username |-> username[r]]}
              /\ Return(r, "UserRegistered")
    /\ UNCHANGED <<now, received, devices, device_data, reported_under, seizure_events>>

\* the users that are logged in and the device ids they register and delete
UserIds == {u.id : u \in users}
DirectoryIds == {"d4", "d6"}

\* overlapping register_device and delete_device handlers
NextDirectory ==
    \/ \E r \in Tasks, u \in UserIds, d \in DirectoryIds :
            received < MaxDirectoryRequests /\ ReceiveRegisterDevice(r, u, d)
    \/ \E r \in Tasks : FetchExistingDevice(r)
    \/ \E r \in Tasks : InsertDevice(r)
    \/ \E r \in Tasks, u \in UserIds, d \in DirectoryIds :
            received < MaxDirectoryRequests /\ ReceiveDeleteDevice(r, u, d)
    \/ \E r \in Tasks : DeleteDevice(r)

SpecDirectory == Init /\ [][NextDirectory]_vars

\* the usernames asked for, and the readings sent, in a run of all the handlers
Usernames == {"bob", "carol"}
ServicePayloads ==
    {p \in CurrentPayloads : p.device_id \in {"d1", "d2", "d3", "d4"}}

\* every handler that touches the tables, one call at a time
NextService ==
    \/ \E p \in ServicePayloads :
            received < MaxServiceRequests /\ ReceiveDeviceData(1, p)
    \/ InsertDeviceData(1)
    \/ FetchUserDevices(1)
    \/ FetchRecentRows(1)
    \/ FetchExistingRecent(1)
    \/ InsertSeizureEvent(1)
    \/ \E u \in UserIds, d \in DirectoryIds :
            received < MaxServiceRequests /\ ReceiveRegisterDevice(1, u, d)
    \/ FetchExistingDevice(1)
    \/ InsertDevice(1)
    \/ \E u \in UserIds, d \in DirectoryIds :
            received < MaxServiceRequests /\ ReceiveDeleteDevice(1, u, d)
    \/ DeleteDevice(1)
    \/ \E u \in UserIds, d \in DirectoryIds :
            received < MaxServiceRequests /\ ReceiveUpdateDevice(1, u, d)
    \/ UpdateDevice(1)
    \/ \E u \in UserIds, d \in DirectoryIds :
            received < MaxServiceRequests /\ ReceiveGetDeviceHistory(1, u, d)
    \/ FetchHistory(1)
    \/ \E u \in UserIds : received < MaxServiceRequests /\ GetSeizureEvents(1, u)
    \/ \E name \in Usernames :
            received < MaxServiceRequests /\ ReceiveRegister(1, name)
    \/ InsertUser(1)

SpecService == Init /\ [][NextService]_vars

\* a database in which two users have three devices each
InitTwoUsers ==
    /\ now = 0
    /\ received = 0
    /\ users = {[id |-> 1, username |-> "alice"], [id |-> 2, username |-> "bob"]}
    /\ devices = {[id |-> 1, user_id |-> 1, device_id |-> "d1", label |-> "d1"],
                  [id |-> 2, user_id |-> 1, device_id |-> "d2", label |-> "d2"],
                  [id |-> 3, user_id |-> 1, device_id |-> "d3", label |-> "d3"],
                  [id |-> 4, user_id |-> 2, device_id |-> "d4", label |-> "d4"],
                  [id |-> 5, user_id |-> 2, device_id |-> "d5", label |-> "d5"],
                  [id |-> 6, user_id |-> 2, device_id |-> "d6", label |-> "d6"]}
    /\ device_data = EmptyBag
    /\ seizure_events = <<>>
    /\ reported_under = {}
    /\ pc = [r \in Tasks |-> "idle"]
    /\ payload = [r \in Tasks |-> NoPayload]
    /\ username = [r \in Tasks |-> ""]
    /\ user_id = [r \in Tasks |-> NoUser]
    /\ device = [r \in Tasks |-> NoRow]
    /\ device_ids = [r \in Tasks |-> {}]
    /\ window_start = [r \in Tasks |-> 0]
    /\ unique_triggered = [r \in Tasks |-> EmptyBag]
    /\ event_timestamp = [r \in Tasks |-> 0]
    /\ outcome = "none"

\* the abnormal readings of the current second, and the device that changes hands
AbnormalPayloads == {p \in CurrentPayloads : p.seizure_flag}
TransferredIds == {"d3"}

\* the devices of two users report, and a device is deleted and registered
\* again, one call at a time
NextOwnership ==
    \/ \E p \in AbnormalPayloads :
            received < MaxOwnershipRequests /\ ReceiveDeviceData(1, p)
    \/ InsertDeviceData(1)
    \/ FetchUserDevices(1)
    \/ FetchRecentRows(1)
    \/ FetchExistingRecent(1)
    \/ InsertSeizureEvent(1)
    \/ \E u \in UserIds, d \in TransferredIds :
            received < MaxOwnershipRequests /\ ReceiveRegisterDevice(1, u, d)
    \/ FetchExistingDevice(1)
    \/ InsertDevice(1)
    \/ \E u \in UserIds, d \in TransferredIds :
            received < MaxOwnershipRequests /\ ReceiveDeleteDevice(1, u, d)
    \/ DeleteDevice(1)

SpecOwnership == InitTwoUsers /\ [][NextOwnership]_vars

\* ------------------------------------------------------ database failures
\* the awaits of receive_device_data after the device lookup
IngestionAwaits ==
    {"insert_data", "fetch_user_devices", "fetch_recent_rows",
     "fetch_existing_recent", "insert_event"}

\* the device lookup of a call raises: nothing was stored, the exception leaves
\* the handler (it has no try/except) and the call ends as a server error
DeviceLookupError(r, p) ==
    /\ pc[r] = "idle"
    /\ \A q \in Tasks : q < r => pc[q] # "idle"
    /\ received' = received + 1
    /\ Return(r, "Error")
    /\ UNCHANGED <<now, users, devices, device_data, reported_under, seizure_events>>

\* variant: the failure is caught and the call answers as if nothing correlated
DatabaseErrorSwallowed(r) ==
    /\ pc[r] \in IngestionAwaits
    /\ Return(r, "NoCorrelation")
    /\ UNCHANGED <<now, received, users, devices, device_data, reported_under, seizure_events>>

\* the database operation task r awaits raises: the statement stores nothing,
\* the exception leaves the handler and the call ends as a server error
DatabaseError(r) ==
    /\ pc[r] \in IngestionAwaits
    /\ Return(r, "Error")
    /\ UNCHANGED <<now, received, users, devices, device_data, reported_under, seizure_events>>

\* the abnormal readings of the current second from d1, d2, d3
FaultyPayloads ==
    {p \in CurrentPayloads : p.seizure_flag /\ p.device_id \in {"d1", "d2", "d3"}}

\* overlapping ingestion handlers, any database operation of which may fail
NextFaulty ==
    \/ \E r \in Tasks, p \in FaultyPayloads :
            received < MaxRequests /\ ReceiveDeviceData(r, p)
    \/ \E r \in Tasks : InsertDeviceData(r)
    \/ \E r \in Tasks : FetchUserDevices(r)
    \/ \E r \in Tasks : FetchRecentRows(r)
    \/ \E r \in Tasks : FetchExistingRecent(r)
    \/ \E r \in Tasks : InsertSeizureEvent(r)
    \/ \E r \in Tasks, p \in FaultyPayloads :
            received < MaxRequests /\ DeviceLookupError(r, p)
    \/ \E r \in Tasks : DatabaseError(r)

SpecFaulty == Init /\ [][NextFaulty]_vars

\* ------------------------------------------------- vocabulary of the claims
Abs(x) == IF x < 0 THEN 0 - x ELSE x

\* the clock value task r read when it computed window_start: its "now"
CallNow(r) == window_start[r] + WindowSeconds

\* abnormal-flagged rows stored for device d
AbnormalRows(d) ==
    {row \in BagToSet(device_data) : row.device_id = d /\ row.seizure_flag}

\* the devices among ids with an abnormal-flagged row stamped inside [from, to]
AbnormalDevicesIn(ids, from, to) ==
    {d \in ids : \E row \in AbnormalRows(d) :
                    row.timestamp >= from /\ row.timestamp <= to}

\* the events persisted for user u
EventsOf(u) == {i \in DOMAIN seizure_events : seizure_events[i].user_id = u}

\* task r takes a step of its handler
Steps(r) == pc[r] # "idle" /\ pc'[r] # pc[r]

\* task r returns from its handler
Returns(r) == pc[r] # "idle" /\ pc'[r] = "idle"

\* ------------------------------------------------------------------ claims
\* C1: for each user, no two persisted seizure_events rows have timestamps
\* closer together than the window length of 5 seconds.
C1_EventsAtLeastWindowApart ==
    \A i, j \in DOMAIN seizure_events :
        (i < j /\ seizure_events[i].user_id = seizure_events[j].user_id)
            => Abs(seizure_events[j].timestamp - seizure_events[i].timestamp)
                    >= WindowSeconds

\* C2: two handlers of the same user are never both between a passed dedup
\* check and their write, and once every call of a burst of abnormal events
\* from at least Quorum distinct devices of one user (one row each, all stamped
\* inside the window, nothing else stored) has returned, exactly one event
\* has been persisted for that user.
BurstOf(u) ==
    /\ BagCardinality(device_data) >= Quorum
    /\ \A row \in BagToSet(device_data) :
          /\ row.seizure_flag
          /\ row.device_id \in UserDeviceIds(u)
          /\ CopiesIn(row, device_data) = 1
          /\ AbnormalRows(row.device_id) = {row}
          /\ row.timestamp <= now /\ row.timestamp >= now - WindowSeconds

C2_ExactlyOneConfirmedPerBurst ==
    /\ \A r1, r2 \in Tasks :
          (r1 # r2 /\ pc[r1] = "insert_event" /\ pc[r2] = "insert_event")
              => user_id[r1] # user_id[r2]
    /\ \A u \in {d.user_id : d \in devices} :
          (BurstOf(u) /\ \A r \in Tasks : pc[r] = "idle")
              => Cardinality(EventsOf(u)) = 1

\* C3: an event is created for a user only if at least Quorum distinct devices
\* of that user have an abnormal-flagged row stamped inside the trailing
\* window of the call (from window_start up to the time the call took as now).
C3_EventOnlyWithQuorumInsideWindow ==
    [][\A r \in Tasks :
          (pc[r] = "insert_event" /\ Returns(r))
              => Cardinality(AbnormalDevicesIn(UserDeviceIds(user_id[r]),
                                               window_start[r], CallNow(r))) >= Quorum]_vars

\* C4: a call for which at least Quorum distinct devices of the user have an
\* abnormal-flagged row stamped inside [now - W, now], and no event of the user
\* is stamped inside [now - W, now], returns Confirmed and persists one new
\* event of that user listing at least Quorum devices.
QuorumInsideWindow(r) ==
    Cardinality(AbnormalDevicesIn(UserDeviceIds(user_id[r]),
                                  window_start[r], CallNow(r))) >= Quorum

NoEventInsideWindow(r) ==
    \A i \in EventsOf(user_id[r]) :
        \/ seizure_events[i].timestamp < window_start[r]
        \/ seizure_events[i].timestamp > CallNow(r)

C4_QuorumWithoutRecentEventConfirms ==
    [][\A r \in Tasks :
          ( /\ pc[r] \in {"fetch_recent_rows", "fetch_existing_recent", "insert_event"}
            /\ Steps(r)
            /\ QuorumInsideWindow(r)
            /\ NoEventInsideWindow(r) )
              => \/ pc'[r] \in {"fetch_existing_recent", "insert_event"}
                 \/ /\ Returns(r)
                    /\ outcome' = "Confirmed"
                    /\ Len(seizure_events') = Len(seizure_events) + 1
                    /\ seizure_events'[Len(seizure_events')].user_id = user_id[r]
                    /\ BagCardinality(seizure_events'[Len(seizure_events')].device_ids)
                           >= Quorum]_vars

\* a second event of a user, more than W after the first, whose quorum was
\* stamped inside the window that ends at its own timestamp
C4_Witness ==
    /\ outcome = "Confirmed"
    /\ \A r \in Tasks : pc[r] = "idle"
    /\ Len(seizure_events) = 2
    /\ seizure_events[1].user_id = seizure_events[2].user_id
    /\ seizure_events[2].timestamp - seizure_events[1].timestamp > WindowSeconds
    /\ Cardinality(AbnormalDevicesIn(UserDeviceIds(seizure_events[2].user_id),
                       seizure_events[2].timestamp - WindowSeconds,
                       seizure_events[2].timestamp)) >= Quorum

\* C5: while an event of the user exists within W of a call's time, the call
\* writes no event and never reaches the insert; having met the quorum it
\* returns SuppressedDuplicate.
EventWithinWindowOf(r) ==
    \E i \in EventsOf(user_id[r]) :
        Abs(CallNow(r) - seizure_events[i].timestamp) <= WindowSeconds

C5_RecentEventSuppresses ==
    [][\A r \in Tasks :
          ( /\ pc[r] \in {"fetch_recent_rows", "fetch_existing_recent", "insert_event"}
            /\ Steps(r)
            /\ EventWithinWindowOf(r) )
              => /\ seizure_events' = seizure_events
                 /\ pc'[r] # "insert_event"
                 /\ pc[r] = "fetch_existing_recent"
                        => (Returns(r) /\ outcome' = "SuppressedDuplicate")]_vars

C5_Witness ==
    /\ outcome = "SuppressedDuplicate"
    /\ \A r \in Tasks : pc[r] = "idle"
    /\ Len(seizure_events) = 1
    /\ now - seizure_events[1].timestamp <= WindowSeconds

\* C6: the devices a call counts are exactly the devices of the user with an
\* abnormal-flagged row stamped inside the window, both bounds inclusive: not
\* older than window_start and not later than the time the call took as now.
C6_OnlyRowsInsideWindowCount ==
    [][\A r \in Tasks :
          (pc[r] = "fetch_recent_rows" /\ pc'[r] = "fetch_existing_recent")
              => BagToSet(unique_triggered'[r])
                    = AbnormalDevicesIn(device_ids[r], window_start[r], CallNow(r))]_vars

\* C7: a device with an abnormal-flagged row stamped exactly at now - W is
\* counted toward the quorum; a device whose abnormal-flagged rows are all
\* stamped before now - W (one second earlier included) is not.
StampedAtLowerBound(r) ==
    {d \in device_ids[r] :
        \E row \in AbnormalRows(d) : row.timestamp = window_start[r]}

StampedBeforeLowerBound(r) ==
    {d \in device_ids[r] :
        /\ AbnormalRows(d) # {}
        /\ \A row \in AbnormalRows(d) : row.timestamp < window_start[r]}

C7_LowerBoundInclusive ==
    [][\A r \in Tasks :
          (pc[r] = "fetch_recent_rows" /\ Steps(r))
              => IF pc'[r] = "fetch_existing_recent"
                   THEN /\ StampedAtLowerBound(r) \subseteq BagToSet(unique_triggered'[r])
                        /\ StampedBeforeLowerBound(r) \cap BagToSet(unique_triggered'[r]) = {}
                   ELSE /\ outcome' = "NoCorrelation"
                        /\ Cardinality({d \in device_ids[r] : AbnormalRows(d) # {}}
                                          \ StampedBeforeLowerBound(r)) < Quorum]_vars

\* a quorum that needs a device stamped exactly at the lower bound, next to a
\* device stamped one second before it that is left out
C7_Witness ==
    \E r \in Tasks :
        /\ pc[r] = "fetch_existing_recent"
        /\ \E d \in BagToSet(unique_triggered[r]) :
              \A row \in AbnormalRows(d) : row.timestamp = window_start[r]
        /\ BagCardinality(unique_triggered[r]) = Quorum
        /\ \E d \in device_ids[r] \ BagToSet(unique_triggered[r]) :
              \E row \in AbnormalRows(d) : row.timestamp = window_start[r] - 1

\* C8: a call changes seizure_events only when it returns Confirmed, and then
\* by appending exactly one row; a call that returns anything else, and every
\* step that is not a return, leaves seizure_events unchanged.
C8_WriteOnlyOnConfirmed ==
    [][ /\ \A r \in Tasks :
              Returns(r) =>
                  IF outcome' = "Confirmed"
                    THEN /\ Len(seizure_events') = Len(seizure_events) + 1
                         /\ SubSeq(seizure_events', 1, Len(seizure_events)) = seizure_events
                    ELSE seizure_events' = seizure_events
        /\ (\A r \in Tasks : ~Returns(r)) => seizure_events' = seizure_events ]_vars

\* a call suppressed next to a persisted event, and the event still alone
C8_Witness ==
    /\ outcome = "SuppressedDuplicate"
    /\ Len(seizure_events) = 1
    /\ \A r \in Tasks : pc[r] = "idle"

\* C9: the event a call persists has the user of the device that triggered the
\* call, lists exactly the devices of that user with an abnormal-flagged row
\* stamped inside the evaluation window, each once, and is stamped with the
\* clock at detection.
C9_EventRecordsOwnerWindowAndClock ==
    [][\A r \in Tasks :
          (pc[r] = "insert_event" /\ Returns(r))
              => LET e == seizure_events'[Len(seizure_events')]
                 IN  /\ Len(seizure_events') = Len(seizure_events) + 1
                     /\ \E d \in DeviceRow(payload[r].device_id) : e.user_id = d.user_id
                     /\ e.device_ids = SetToBag(AbnormalDevicesIn(
                            UserDeviceIds(e.user_id), window_start[r], CallNow(r)))
                     /\ e.timestamp >= CallNow(r)
                     /\ e.timestamp <= now]_vars

\* C10: a call for a device that is not registered ends as UnknownDevice
\* (403) at once and changes no table.
C10_UnknownDeviceRejected ==
    [][\A r \in Tasks, p \in Payloads :
          (ReceiveDeviceData(r, p) /\ DeviceRow(p.device_id) = {})
              => /\ outcome' = "UnknownDevice"
                 /\ pc'[r] = "idle"
                 /\ UNCHANGED <<users, devices, device_data, reported_under, seizure_events>>]_vars

\* the rejected call came after telemetry of registered devices was stored
C10_Witness ==
    /\ outcome = "UnknownDevice"
    /\ received >= 2
    /\ BagCardinality(device_data) = received - 1

\* C11: a call of which a database operation fails (the device lookup, the
\* window query, the recent-event query, the event insert or any other) ends
\* as an error, never as an ok or negative outcome, and writes no event.
C11_FailureEndsInErrorWithoutEvent ==
    [][ /\ \A r \in Tasks :
              DatabaseError(r)
                  => /\ Returns(r)
                     /\ outcome' = "Error"
                     /\ seizure_events' = seizure_events
        /\ \A r \in Tasks, p \in Payloads :
              DeviceLookupError(r, p)
                  => /\ outcome' = "Error"
                     /\ pc'[r] = "idle"
                     /\ UNCHANGED <<device_data, reported_under, seizure_events>> ]_vars

\* the call that completed the quorum failed: the quorum is stored inside the
\* window, the call ended as an error and no event exists
C11_Witness ==
    /\ outcome = "Error"
    /\ \A r \in Tasks : pc[r] = "idle"
    /\ seizure_events = <<>>
    /\ Cardinality(AbnormalDevicesIn(UserDeviceIds(1), now - WindowSeconds, now))
           >= Quorum

\* C12 as claimed: once an event exists for a user, as long as abnormal
\* readings that meet the quorum keep arriving within every successive window
\* (since the first event, no two of them are more than W apart), no second
\* event is created for that user.
QuorumArrivalAt(u, a) ==
    /\ \E d \in UserDeviceIds(u) : \E row \in AbnormalRows(d) : row.timestamp = a
    /\ Cardinality(AbnormalDevicesIn(UserDeviceIds(u), a - WindowSeconds, a)) >= Quorum

ContinuousTraffic(u) ==
    /\ EventsOf(u) # {}
    /\ \A t \in seizure_events[CHOOSE i \in EventsOf(u) : \A j \in EventsOf(u) : i <= j].timestamp .. now :
          \E a \in (t - WindowSeconds + 1) .. t : QuorumArrivalAt(u, a)

C12_SlidingCooldownSuppresses ==
    \A u \in {d.user_id : d \in devices} :
        ContinuousTraffic(u) => Cardinality(EventsOf(u)) = 1

\* C12 amended: the cooldown is measured from the timestamp of the user's latest
\* event: a call that met the quorum is suppressed exactly when an event of the
\* user stamped at or after its now - W exists, and passes the dedup check
\* otherwise, whatever arrived in between.
LatestEventTimestamp(u) ==
    LET stamps == {seizure_events[i].timestamp : i \in EventsOf(u)}
    IN  CHOOSE t \in stamps : \A x \in stamps : x <= t

C12_CooldownFixedFromLatestEvent ==
    [][\A r \in Tasks :
          (pc[r] = "fetch_existing_recent" /\ Steps(r))
              => IF \/ EventsOf(user_id[r]) = {}
                    \/ CallNow(r) - LatestEventTimestamp(user_id[r]) > WindowSeconds
                   THEN pc'[r] = "insert_event"
                   ELSE /\ Returns(r)
                        /\ outcome' = "SuppressedDuplicate"
                        /\ seizure_events' = seizure_events]_vars

\* a second event of the user, although quorum-meeting readings kept arriving
\* within every window since the first
C12_Witness ==
    /\ Len(seizure_events) = 2
    /\ \A r \in Tasks : pc[r] = "idle"
    /\ seizure_events[1].user_id = seizure_events[2].user_id
    /\ ContinuousTraffic(seizure_events[1].user_id)

\* C13: a reading without seizure_flag is stored and the call returns at once:
\* it writes no event and never reaches the correlation, whatever is stored;
\* and a device whose rows inside the window are all without seizure_flag is
\* never counted toward the quorum.
C13_NormalReadingNeverCorrelates ==
    [][\A r \in Tasks :
          /\ (pc[r] = "insert_data" /\ Steps(r) /\ ~payload[r].seizure_flag)
                => /\ Returns(r)
                   /\ outcome' = "Stored"
                   /\ device_data' = device_data (+) SetToBag({DataRow(payload[r])})
                   /\ seizure_events' = seizure_events
          /\ (pc[r] = "fetch_recent_rows" /\ pc'[r] = "fetch_existing_recent")
                => \A d \in BagToSet(unique_triggered'[r]) :
                      \E row \in AbnormalRows(d) : row.timestamp >= window_start[r]]_vars

\* a normal reading was stored while a quorum of the user's devices had
\* abnormal rows inside the window and no event of the user was recent
C13_Witness ==
    /\ outcome = "Stored"
    /\ \A r \in Tasks : pc[r] = "idle"
    /\ Cardinality(AbnormalDevicesIn(UserDeviceIds(1), now - WindowSeconds, now))
           >= Quorum
    /\ \A i \in EventsOf(1) : seizure_events[i].timestamp < now - WindowSeconds
    /\ \E row \in BagToSet(device_data) :
          ~row.seizure_flag /\ row.timestamp >= now - WindowSeconds

\* C14: in every state each device_id has at most one row in devices, hence one
\* owner, whatever registrations and deletions overlap; and a register_device
\* step for a device_id that is in the table ends the call as rejected and
\* leaves devices unchanged.
DeviceIdsUnique ==
    \A x, y \in devices : x.device_id = y.device_id => x = y

C14_DeviceHasOneOwner ==
    [][ /\ DeviceIdsUnique'
        /\ \A r \in Tasks :
              ( /\ pc[r] \in {"fetch_existing_device", "insert_device"}
                /\ Steps(r)
                /\ DeviceRow(payload[r].device_id) # {} )
                  => /\ Returns(r)
                     /\ outcome' \in {"AlreadyRegistered", "Error"}
                     /\ devices' = devices ]_vars

\* two users registered the same free device_id at the same time: both passed
\* the lookup, one insert was refused, and the device has the other as its owner
C14_Witness ==
    /\ outcome = "Error"
    /\ \A r \in Tasks : pc[r] = "idle"
    /\ \E d \in DirectoryIds : Cardinality(DeviceRow(d)) = 1

\* C18: in every state no user has more than DeviceLimit rows in devices.
C18_AtMostFourDevicesPerUser ==
    \A u \in UserIds :
        Cardinality({x \in devices : x.user_id = u}) <= DeviceLimit

\* C15: no step of any handler removes or changes a stored device_data or
\* seizure_events row; the insert step of an accepted ingestion adds exactly
\* one device_data row and no other step adds one; and no step of an ingestion
\* changes devices or users.
C15_TelemetryAndEventsAppendOnly ==
    [][ /\ \A row \in BagToSet(device_data) :
              CopiesIn(row, device_data') >= CopiesIn(row, device_data)
        /\ Len(seizure_events') >= Len(seizure_events)
        /\ SubSeq(seizure_events', 1, Len(seizure_events)) = seizure_events
        /\ \A r \in Tasks :
              IF pc[r] = "insert_data" /\ Steps(r)
                THEN device_data' = device_data (+) SetToBag({DataRow(payload[r])})
                ELSE Steps(r) => device_data' = device_data
        /\ (\A r \in Tasks : pc'[r] = pc[r]) => device_data' = device_data
        /\ \A r \in Tasks :
              (pc[r] \in IngestionAwaits /\ Steps(r)) => UNCHANGED <<devices, users>>
        /\ \A r \in Tasks, p \in Payloads :
              ReceiveDeviceData(r, p)
                  => UNCHANGED <<devices, users, device_data, reported_under, seizure_events>> ]_vars

\* a device was deleted: its telemetry and the event that lists it are still
\* stored
C15_Witness ==
    /\ outcome = "Deleted"
    /\ Len(seizure_events) = 1
    /\ \E d \in BagToSet(seizure_events[1].device_ids) :
          DeviceRow(d) = {} /\ AbnormalRows(d) # {}

\* C16: what a call for a device of user U does is decided by the rows of U's
\* own devices and by U's own events alone: the devices it counts are exactly
\* U's devices with an abnormal-flagged row at or after window_start (no device
\* of another user among them), it meets the quorum exactly when these are at
\* least Quorum, it is suppressed exactly when an event of U is stamped at or
\* after window_start (an event of another user never suppresses it), and the
\* event it writes is U's and lists U's devices only.
DevicesOwnedBy(u) ==
    {d \in DeviceIds : \E x \in devices : x.device_id = d /\ x.user_id = u}

OwnAbnormalDevices(r) ==
    {d \in DevicesOwnedBy(user_id[r]) :
        \E row \in AbnormalRows(d) : row.timestamp >= window_start[r]}

OwnRecentEvent(r) ==
    \E i \in EventsOf(user_id[r]) : seizure_events[i].timestamp >= window_start[r]

C17_ContributionsReportedUnderOwner ==
    \A i \in DOMAIN seizure_events :
        \A d \in BagToSet(seizure_events[i].device_ids) :
            \E g \in reported_under :
                /\ g.user_id = seizure_events[i].user_id
                /\ g.row.device_id = d
                /\ g.row.seizure_flag

====
